---- MODULE Spec2Model ----
(***************************************************************************)
(* OAuth2 authorization-code subsystem of IOMirea/api                      *)
(* (iomirea/routes/oauth2.py): GET/POST /authorize, POST /token and        *)
(* POST /token/revoke, run as concurrent request tasks that interleave at  *)
(* every awaited store or database call.                                   *)
(*                                                                         *)
(* Text is a sequence of one-character strings, so that formatting,        *)
(* splitting, base64 and int()/str() are computed, not assumed.            *)
(***************************************************************************)
EXTENDS Integers, Sequences, FiniteSets, Bags, TLC

VARIABLES
    users,    \* the users table: id -> (email, password hash)
    rd,       \* the Redis store: record key -> (value, seconds to live)
    tokens,   \* the access tokens the durable store holds as valid
    nkeys,    \* how many signing keys secrets.token_bytes has drawn
    areq,     \* the POST /authorize tasks in flight, a bag of task states
    treq,     \* the POST /token tasks in flight, a bag of task states
    out,      \* the response sent by the step just taken, if any
    revoked,  \* history: tokens revoked and not issued again since
    ledger    \* history: what became of each code issued

vars == <<users, rd, tokens, nkeys, areq, treq, out, revoked, ledger>>

(***************************************************************************)
(* Bounds of the model                                                     *)
(***************************************************************************)
MaxCodes == 1
MaxTokenReqs == 2
MaxPosts == 2
MaxItems == 3
TickSeconds == 300

(***************************************************************************)
(* Text helpers: str.join, str.split, str(int), int(str)                   *)
(***************************************************************************)
RECURSIVE Join(_, _)
Join(parts, sep) ==
    IF Len(parts) = 0 THEN <<>>
    ELSE IF Len(parts) = 1 THEN parts[1]
    ELSE parts[1] \o sep \o Join(Tail(parts), sep)

RECURSIVE SplitFrom(_, _, _, _)
SplitFrom(s, ch, i, cur) ==
    IF i > Len(s) THEN <<cur>>
    ELSE IF s[i] = ch THEN <<cur>> \o SplitFrom(s, ch, i + 1, <<>>)
    ELSE SplitFrom(s, ch, i + 1, Append(cur, s[i]))

Split(s, ch) == SplitFrom(s, ch, 1, <<>>)

Digits == <<"0", "1", "2", "3", "4", "5", "6", "7", "8", "9">>

RECURSIVE IntToStr(_)
IntToStr(n) ==
    IF n < 10 THEN <<Digits[n + 1]>>
    ELSE Append(IntToStr(n \div 10), Digits[(n % 10) + 1])

DigitValue(ch) == CHOOSE d \in 0..9 : Digits[d + 1] = ch

IsDigit(ch) == \E d \in 0..9 : Digits[d + 1] = ch

IsIntStr(s) == Len(s) > 0 /\ \A i \in 1..Len(s) : IsDigit(s[i])

RECURSIVE StrToInt(_)
StrToInt(s) ==
    IF Len(s) = 0 THEN 0
    ELSE 10 * StrToInt(SubSeq(s, 1, Len(s) - 1)) + DigitValue(s[Len(s)])

(***************************************************************************)
(* base64.b64encode / base64.b64decode (standard alphabet, '=' padding)    *)
(***************************************************************************)
B64Alphabet ==
    <<"A", "B", "C", "D", "E", "F", "G", "H", "I", "J", "K", "L", "M",
      "N", "O", "P", "Q", "R", "S", "T", "U", "V", "W", "X", "Y", "Z",
      "a", "b", "c", "d", "e", "f", "g", "h", "i", "j", "k", "l", "m",
      "n", "o", "p", "q", "r", "s", "t", "u", "v", "w", "x", "y", "z",
      "0", "1", "2", "3", "4", "5", "6", "7", "8", "9", "+", "/">>

B64Char(v) == B64Alphabet[v + 1]

B64Value(ch) == CHOOSE v \in 0..63 : B64Alphabet[v + 1] = ch

RECURSIVE B64Encode(_)
B64Encode(bytes) ==
    IF Len(bytes) = 0 THEN <<>>
    ELSE IF Len(bytes) = 1 THEN
        <<B64Char(bytes[1] \div 4), B64Char((bytes[1] % 4) * 16), "=", "=">>
    ELSE IF Len(bytes) = 2 THEN
        <<B64Char(bytes[1] \div 4),
          B64Char((bytes[1] % 4) * 16 + bytes[2] \div 16),
          B64Char((bytes[2] % 16) * 4), "=">>
    ELSE
        <<B64Char(bytes[1] \div 4),
          B64Char((bytes[1] % 4) * 16 + bytes[2] \div 16),
          B64Char((bytes[2] % 16) * 4 + bytes[3] \div 64),
          B64Char(bytes[3] % 64)>> \o B64Encode(SubSeq(bytes, 4, Len(bytes)))

RECURSIVE B64Decode(_)
B64Decode(s) ==
    IF Len(s) < 4 THEN <<>>
    ELSE
        LET a == B64Value(s[1])
            b == B64Value(s[2])
            b1 == a * 4 + b \div 16
        IN  IF s[3] = "=" THEN <<b1>>
            ELSE
                LET c == B64Value(s[3])
                    b2 == (b % 16) * 16 + c \div 4
                IN  IF s[4] = "=" THEN <<b1, b2>>
                    ELSE <<b1, b2, (c % 4) * 64 + B64Value(s[4])>>
                             \o B64Decode(SubSeq(s, 5, Len(s)))

(***************************************************************************)
(* Data of the environment: registered applications, user accounts,        *)
(* the scope vocabulary and the values requests may carry                  *)
(***************************************************************************)
UriA == <<"a", ":", "/", "/", "x">>
UriB == <<"a", ":", "/", "/", "y">>

Uris == {UriA, UriB}

ClientIds == {1, 12}

\* rows of the applications table: id -> (name, redirect_uri)
applications == [c \in {1} |-> [name |-> "App", redirect_uri |-> UriA]]

UserIds == {7, 10}

Email(u) == IF u = 7 THEN "alice" ELSE "bob"

PasswordOf(u) == IF u = 7 THEN "pwA" ELSE "pwB"

HashPassword(pw) == <<"hash", pw>>

\* security.security_checks.check_user_password(password, hash)
check_user_password(password, hash) == HashPassword(password) = hash

InitUsers == [u \in UserIds |-> [email |-> Email(u), password |-> HashPassword(PasswordOf(u))]]

ScopeUser == <<"u", "s", "e", "r">>
ScopeBot == <<"b", "o", "t">>

EXISTING_SCOPES == {ScopeUser, ScopeBot}

\* unknown items passed over instead of rejected
RECURSIVE ScopeCollectSkipping(_, _)
ScopeCollectSkipping(items, scopes) ==
    IF Len(items) = 0 THEN [ok |-> TRUE, scopes |-> scopes]
    ELSE IF items[1] \notin EXISTING_SCOPES THEN ScopeCollectSkipping(Tail(items), scopes)
    ELSE IF \E i \in 1..Len(scopes) : scopes[i] = items[1]
         THEN ScopeCollectSkipping(Tail(items), scopes)
         ELSE ScopeCollectSkipping(Tail(items), Append(scopes, items[1]))

\* Scope._convert: split on " ", reject on the first unknown item, keep the
\* first occurrence of each item
RECURSIVE ScopeCollect(_, _)
ScopeCollect(items, scopes) ==
    IF Len(items) = 0 THEN [ok |-> TRUE, scopes |-> scopes]
    ELSE IF items[1] \notin EXISTING_SCOPES THEN [ok |-> FALSE, scopes |-> <<>>]
    ELSE IF \E i \in 1..Len(scopes) : scopes[i] = items[1]
         THEN ScopeCollect(Tail(items), scopes)
         ELSE ScopeCollect(Tail(items), Append(scopes, items[1]))

ScopeConvert(value) == ScopeCollect(Split(value, " "), <<>>)

\* Scope(default=["user"])
DefaultScope == <<ScopeUser>>

\* the scope query parameter: absent, or a raw string to convert
ScopeParam(p) == IF p.given THEN ScopeConvert(p.value) ELSE [ok |-> TRUE, scopes |-> DefaultScope]

(***************************************************************************)
(* Code signing: secrets.token_bytes, hmac.new(...).hexdigest(), and the   *)
(* message and record formats of post_authorize and token                  *)
(***************************************************************************)
KeyLen == 20

\* every draw returning the same key
KeyBytesFixed(n) == [i \in 1..KeyLen |-> (i * 11) % 256]

\* the n-th key drawn from secrets.token_bytes(KeyLen); draws never repeat
KeyBytes(n) == [i \in 1..KeyLen |-> (n * 37 + i * 11) % 256]

\* the message without the redirect_uri
MessageClientOnly(client_id, redirect_uri) == IntToStr(client_id)

\* ".".join([str(client_id), redirect_uri])
Message(client_id, redirect_uri) == Join(<<IntToStr(client_id), redirect_uri>>, <<".">>)

\* hmac.new(key, msg, "sha1").hexdigest(): a digest is determined by, and
\* determines, the key and the message (no collisions)
Hmac(key, msg) == [key |-> key, msg |-> msg]

\* f"auth_code:{code}"
RecordKey(code) == <<"auth_code:", code>>

\* an hour instead of ten minutes
AuthCodeTTLHour == 60 * 60

\* the seconds SETEX is given
AuthCodeTTL == 10 * 60

\* the scopes joined by "," instead of " "
RecordValueComma(user_id, key, scope) ==
    Join(<<IntToStr(user_id), B64Encode(key), Join(scope, <<",">>)>>, <<":">>)

\* f"{record['id']}:{encoded_key}:{' '.join(query['scope'])}"
RecordValue(user_id, key, scope) ==
    Join(<<IntToStr(user_id), B64Encode(key), Join(scope, <<" ">>)>>, <<":">>)

\* the key taken as stored, without base64.b64decode
ParseRecordRaw(value) ==
    LET parts == Split(value, ":")
    IN  IF Len(parts) = 3 /\ IsIntStr(parts[1])
        THEN [ok |-> TRUE, user_id |-> StrToInt(parts[1]),
              key |-> parts[2], scope |-> parts[3]]
        ELSE [ok |-> FALSE, user_id |-> 0, key |-> <<>>, scope |-> <<>>]

\* record.decode().split(":") unpacked into three names, int(user_id),
\* base64.b64decode(encoded_key); ok is FALSE where Python raises
ParseRecord(value) ==
    LET parts == Split(value, ":")
    IN  IF Len(parts) = 3 /\ IsIntStr(parts[1])
        THEN [ok |-> TRUE, user_id |-> StrToInt(parts[1]),
              key |-> B64Decode(parts[2]), scope |-> parts[3]]
        ELSE [ok |-> FALSE, user_id |-> 0, key |-> <<>>, scope |-> <<>>]

\* hmac.compare_digest(calculated_code, query["code"])
compare_digest(a, b) == a = b

(***************************************************************************)
(* Access tokens (models.access_token.Token): a token is a function of     *)
(* the user, the user's password hash, the client and the scope list, and  *)
(* is valid while the durable store holds it                               *)
(***************************************************************************)
NoToken == [user_id |-> 0, password |-> <<>>, client_id |-> 0, scope |-> <<>>]

TokenFromData(user_id, password, client_id, scope) ==
    [user_id |-> user_id, password |-> password, client_id |-> client_id, scope |-> scope]

\* helpers.parse_token: the presented credential resolved to a Token object
ParseToken(credential) == credential

\* Token.revoke: the token's row is deleted; deleting a missing row is no error
TokenRevoke(store, token) == store \ {token}

(***************************************************************************)
(* Responses                                                               *)
(***************************************************************************)
NoCode == Hmac(<<>>, <<>>)

NoContext == [redirect_uri |-> <<>>, app_name |-> "", scope |-> <<>>, state |-> <<>>]

\* POST and GET /authorize
AResp(status, reason, text, context) ==
    [status |-> status, reason |-> reason, text |-> text, context |-> context]

NoAResp == AResp(0, "", NoCode, NoContext)

HTTPBadRequest(reason) == AResp(400, reason, NoCode, NoContext)

HTTPUnauthorized(reason) == AResp(401, reason, NoCode, NoContext)

HTTPNotImplemented(reason) == AResp(501, reason, NoCode, NoContext)

\* POST /token
TResp(status, reason, access_token, token_type, scope) ==
    [status |-> status, reason |-> reason, access_token |-> access_token,
     token_type |-> token_type, scope |-> scope]

NoTResp == TResp(0, "", NoToken, "", <<>>)

TokenError(status, reason) == TResp(status, reason, NoToken, "", <<>>)

\* POST /token/revoke
RevokeResponse == [status |-> 200, message |-> "Deleted access token"]

(***************************************************************************)
(* Request tasks and their inputs                                          *)
(***************************************************************************)
\* one task of a bag moved from state r to state r2, started, or finished
One(r) == SetToBag({r})

Moved(tasks, r, r2) == (tasks (-) One(r)) (+) One(r2)

Started(tasks, r) == tasks (+) One(r)

Finished(tasks, r) == tasks (-) One(r)

Logins == {"alice", "bob"}

Passwords == {"pwA", "pwB"}

AuthQuery(c, u, p, t) ==
    [client_id |-> c, redirect_uri |-> u, scope |-> ScopeParam(p).scopes,
     state |-> <<"s">>, response_type |-> t]

BotUserBot == [given |-> TRUE, value |-> ScopeBot \o <<" ">> \o ScopeUser \o <<" ">> \o ScopeBot]

NoScope == [given |-> FALSE, value |-> <<>>]

\* the queries GET /authorize is exercised with, as helpers.query_params
\* hands them over after converting them with authorize_query_params
AuthQueries ==
    { AuthQuery(c, u, NoScope, "code") : c \in ClientIds, u \in Uris }
    \cup { AuthQuery(1, UriA, BotUserBot, "code"), AuthQuery(1, UriA, NoScope, "token") }

\* the queries POST /authorize is exercised with
PostQueries ==
    { q \in AuthQueries : q.redirect_uri = (IF q.client_id = 1 THEN UriA ELSE UriB) }

NoAuthQuery ==
    [client_id |-> 0, redirect_uri |-> <<>>, scope |-> <<>>, state |-> <<>>, response_type |-> ""]

IdleA == [pc |-> "idle", query |-> NoAuthQuery, login |-> "", password |-> "", user_id |-> 0]

\* a code no POST /authorize has issued
ForgedCode == Hmac(KeyBytes(0), Message(1, UriA))

NoTokenQuery == [grant_type |-> "", code |-> NoCode, redirect_uri |-> <<>>, client_id |-> 0]

IdleT ==
    [pc |-> "idle", query |-> NoTokenQuery, record |-> <<>>, user_id |-> 0, scope |-> <<>>,
     user_password |-> <<>>, saw |-> "", first |-> FALSE, refreshed |-> FALSE,
     orphan |-> FALSE]

NoOut == [kind |-> "none"]

Out(kind, req, resp) == [kind |-> kind, req |-> req, resp |-> resp]

\* no response is waiting to be written to its connection
Quiet == out.kind = "none"

EmptyMap == [k \in {} |-> 0]

MapPut(f, k, v) == [x \in DOMAIN f \cup {k} |-> IF x = k THEN v ELSE f[x]]

MapDel(f, ks) == [x \in DOMAIN f \ ks |-> f[x]]

\* rd_conn.execute("SETEX", key, seconds, value)
Setex(store, key, seconds, value) == MapPut(store, key, [value |-> value, ttl |-> seconds])

\* rd_conn.execute("GET", key): None when the key is absent
Get(store, key) ==
    IF key \in DOMAIN store THEN [found |-> TRUE, value |-> store[key].value]
    ELSE [found |-> FALSE, value |-> <<>>]

\* DEL that leaves the key in place
DelKeepsKey(store, key) == store

\* rd_conn.execute("DEL", key)
Del(store, key) == MapDel(store, {key})

\* history of a code: what became of its record (live, expired once 600
\* seconds have passed since it was issued, deleted, redeemed), how many
\* /token requests read the record and how many tokens were issued for it
\* (both counted up to 2), whether another POST /authorize task was in
\* flight when the record was stored, and whether a refresh_token request
\* has named the code
LedgerState(code) == IF code \in DOMAIN ledger THEN ledger[code].state ELSE "none"

LedgerSeen(code) == IF code \in DOMAIN ledger THEN ledger[code].seen ELSE 0

\* the user a code was issued to is gone from the users table
LedgerOrphan(code) == code \in DOMAIN ledger /\ ledger[code].user_id \notin DOMAIN users

LedgerRefreshed(code) == IF code \in DOMAIN ledger THEN ledger[code].refreshed ELSE FALSE

Bump(n) == IF n < 2 THEN n + 1 ELSE 2

Init ==
    /\ users = InitUsers
    /\ rd = EmptyMap
    /\ tokens = {}
    /\ nkeys = 0
    /\ areq = EmptyBag
    /\ treq = EmptyBag
    /\ out = NoOut
    /\ revoked = {}
    /\ ledger = EmptyMap

(***************************************************************************)
(* GET /authorize                                                          *)
(***************************************************************************)
\* the redirect_uri of the query taken without comparing it
AuthorizeResponseAnyUri(query) ==
    IF query.response_type = "code" THEN
        IF query.client_id \notin DOMAIN applications
        THEN HTTPBadRequest("Application not found in database")
        ELSE AResp(200, "OK", NoCode,
                   [redirect_uri |-> query.redirect_uri,
                    app_name |-> applications[query.client_id].name,
                    scope |-> Join(query.scope, <<" ">>),
                    state |-> query.state])
    ELSE HTTPNotImplemented("response_type=token is not supported yet")

\* lines 88-122
AuthorizeResponse(query) ==
    IF query.response_type = "code" THEN
        IF query.client_id \notin DOMAIN applications
        THEN HTTPBadRequest("Application not found in database")
        ELSE IF applications[query.client_id].redirect_uri # query.redirect_uri
        THEN HTTPBadRequest("Bad redirect_uri passed")
        ELSE AResp(200, "OK", NoCode,
                   [redirect_uri |-> applications[query.client_id].redirect_uri,
                    app_name |-> applications[query.client_id].name,
                    scope |-> Join(query.scope, <<" ">>),
                    state |-> query.state])
    ELSE HTTPNotImplemented("response_type=token is not supported yet")

\* a GET that leaves a record in the transient store
authorize_storing(q) ==
    /\ Quiet
    /\ out' = Out("authorize", [IdleA EXCEPT !.query = q], AuthorizeResponse(q))
    /\ rd' = Setex(rd, RecordKey(ForgedCode), AuthCodeTTL, RecordValue(7, KeyBytes(0), q.scope))
    /\ UNCHANGED <<users, tokens, nkeys, areq, treq, revoked, ledger>>

authorize(q) ==
    /\ Quiet
    /\ out' = Out("authorize", [IdleA EXCEPT !.query = q], AuthorizeResponse(q))
    /\ UNCHANGED <<users, rd, tokens, nkeys, areq, treq, revoked, ledger>>

(***************************************************************************)
(* POST /authorize                                                         *)
(***************************************************************************)
\* fetchrow("SELECT id, password FROM users WHERE email = $1")
UserByEmail(login) == {u \in DOMAIN users : users[u].email = login}

\* the login without the password check
LoginAnyPassword(login, password) ==
    LET found == UserByEmail(login)
    IN  IF found = {} THEN [ok |-> FALSE, user_id |-> 0]
        ELSE [ok |-> TRUE, user_id |-> CHOOSE x \in found : TRUE]

\* lines 135-143: the row of the login, then the password checked against it
Login(login, password) ==
    LET found == UserByEmail(login)
    IN  IF found = {} THEN [ok |-> FALSE, user_id |-> 0]
        ELSE LET u == CHOOSE x \in found : TRUE
             IN  IF check_user_password(password, users[u].password)
                 THEN [ok |-> TRUE, user_id |-> u]
                 ELSE [ok |-> FALSE, user_id |-> 0]

PendingCodes == BagCardinality(areq)

\* a POST that answers as the GET would when the registry rejects the query
post_authorize_checked(q, login, password, budget) ==
    /\ Quiet
    /\ LET record == Login(login, password)
           req == [IdleA EXCEPT !.query = q, !.login = login, !.password = password]
       IN  IF ~record.ok
           THEN /\ out' = Out("post_authorize", req, HTTPUnauthorized("Unauthorized"))
                /\ UNCHANGED areq
           ELSE IF AuthorizeResponse(q).status # 200
           THEN /\ out' = Out("post_authorize", req, AuthorizeResponse(q))
                /\ UNCHANGED areq
           ELSE /\ nkeys + PendingCodes < budget
                /\ areq' = Started(areq, [req EXCEPT !.pc = "setex",
                                                      !.user_id = record.user_id])
                /\ out' = NoOut
    /\ UNCHANGED <<users, rd, tokens, nkeys, treq, revoked, ledger>>

\* lines 133-143: the user lookup and the password check; at most `budget`
\* requests get past the check in one run
post_authorize(q, login, password, budget) ==
    /\ Quiet
    /\ LET record == Login(login, password)
           req == [IdleA EXCEPT !.query = q, !.login = login, !.password = password]
       IN  IF ~record.ok
           THEN /\ out' = Out("post_authorize", req, HTTPUnauthorized("Unauthorized"))
                /\ UNCHANGED areq
           ELSE /\ nkeys + PendingCodes < budget
                /\ areq' = Started(areq, [req EXCEPT !.pc = "setex",
                                                      !.user_id = record.user_id])
                /\ out' = NoOut
    /\ UNCHANGED <<users, rd, tokens, nkeys, treq, revoked, ledger>>

post_authorize_login(q, login, password) == post_authorize(q, login, password, MaxCodes)

\* lines 145-158: the key, the code, SETEX and the response
post_authorize_setex(r) ==
    /\ Quiet
    /\ BagIn(r, areq)
    /\ LET q == r.query
           message == Message(q.client_id, q.redirect_uri)
           key == KeyBytes(nkeys + 1)
           code == Hmac(key, message)
       IN  /\ rd' = Setex(rd, RecordKey(code), AuthCodeTTL,
                          RecordValue(r.user_id, key, q.scope))
           /\ out' = Out("post_authorize", r, AResp(200, "OK", code, NoContext))
           /\ ledger' = MapPut(ledger, code,
                               [state |-> "live", age |-> 0, seen |-> 0, issued |-> 0,
                                user_id |-> r.user_id, query |-> q,
                                overlap |-> BagCardinality(areq) > 1,
                                refreshed |-> FALSE])
    /\ areq' = Finished(areq, r)
    /\ nkeys' = nkeys + 1
    /\ UNCHANGED <<users, tokens, treq, revoked>>

(***************************************************************************)
(* POST /token                                                             *)
(***************************************************************************)
TokenQuery(g, c, u, id) == [grant_type |-> g, code |-> c, redirect_uri |-> u, client_id |-> id]

KnownCodes == DOMAIN ledger \cup {ForgedCode}

TokenQueries ==
    { TokenQuery("authorization_code", c, u, id) : c \in KnownCodes, u \in Uris, id \in ClientIds }
    \cup { TokenQuery("refresh_token", c, UriA, 1) : c \in KnownCodes }

\* a refresh_token request that consumes the record its code names
token_get_consuming(q) ==
    /\ Quiet
    /\ BagCardinality(treq) < MaxTokenReqs
    /\  LET req == [IdleT EXCEPT !.query = q, !.saw = LedgerState(q.code),
                                 !.first = LedgerSeen(q.code) = 0,
                                 !.refreshed = LedgerRefreshed(q.code),
                                 !.orphan = LedgerOrphan(q.code)]
            record_key == RecordKey(q.code)
            record == Get(rd, record_key)
        IN  IF q.grant_type = "authorization_code" THEN
                IF ~record.found
                THEN /\ out' = Out("token", req,
                                   TokenError(401, "Wrong or expired authorization code passed"))
                     /\ UNCHANGED <<treq, ledger>>
                ELSE /\ treq' = Started(treq, [req EXCEPT !.pc = "del",
                                                      !.record = record.value])
                     /\ ledger' = [ledger EXCEPT ![q.code].seen = Bump(@)]
                     /\ out' = NoOut
            ELSE /\ out' = Out("token", req,
                               TokenError(501, "grant_type=refresh_token is not supported yet"))
                 /\ ledger' = IF q.code \in DOMAIN ledger
                              THEN [ledger EXCEPT ![q.code].refreshed = TRUE]
                              ELSE ledger
                 /\ UNCHANGED treq
    /\ rd' = IF q.grant_type = "refresh_token" THEN Del(rd, RecordKey(q.code)) ELSE rd
    /\ UNCHANGED <<users, tokens, nkeys, areq, revoked>>

\* lines 176-187 and 228-231: the grant type, execute("GET", record_key) and
\* the check of its result
token_get(q) ==
    /\ Quiet
    /\ BagCardinality(treq) < MaxTokenReqs
    /\  LET req == [IdleT EXCEPT !.query = q, !.saw = LedgerState(q.code),
                                 !.first = LedgerSeen(q.code) = 0,
                                 !.refreshed = LedgerRefreshed(q.code),
                                 !.orphan = LedgerOrphan(q.code)]
            record_key == RecordKey(q.code)
            record == Get(rd, record_key)
        IN  IF q.grant_type = "authorization_code" THEN
                IF ~record.found
                THEN /\ out' = Out("token", req,
                                   TokenError(401, "Wrong or expired authorization code passed"))
                     /\ UNCHANGED <<treq, ledger>>
                ELSE /\ treq' = Started(treq, [req EXCEPT !.pc = "del",
                                                      !.record = record.value])
                     /\ ledger' = [ledger EXCEPT ![q.code].seen = Bump(@)]
                     /\ out' = NoOut
            ELSE /\ out' = Out("token", req,
                               TokenError(501, "grant_type=refresh_token is not supported yet"))
                 /\ ledger' = IF q.code \in DOMAIN ledger
                              THEN [ledger EXCEPT ![q.code].refreshed = TRUE]
                              ELSE ledger
                 /\ UNCHANGED treq
    /\ UNCHANGED <<users, rd, tokens, nkeys, areq, revoked>>

\* the record deleted only once the code has been verified
token_del_on_success(r) ==
    /\ Quiet
    /\ BagIn(r, treq)
    /\ r.pc = "del"
    /\ LET q == r.query
           record_key == RecordKey(q.code)
           parsed == ParseRecord(r.record)
           message == Message(q.client_id, q.redirect_uri)
           calculated_code == Hmac(parsed.key, message)
           verified == parsed.ok /\ compare_digest(calculated_code, q.code)
       IN  /\ rd' = IF verified THEN Del(rd, record_key) ELSE rd
           /\ ledger' = IF verified /\ record_key \in DOMAIN rd
                        THEN [ledger EXCEPT ![q.code].state = "deleted", ![q.code].age = 0]
                        ELSE ledger
           /\ IF ~parsed.ok
              THEN /\ out' = Out("token", r, TokenError(500, "Internal server error"))
                   /\ treq' = Finished(treq, r)
              ELSE IF ~compare_digest(calculated_code, q.code)
              THEN /\ out' = Out("token", r, TokenError(401, "Bad authorization code passed"))
                   /\ treq' = Finished(treq, r)
              ELSE /\ treq' = Moved(treq, r, [r EXCEPT !.pc = "fetch",
                                    !.user_id = parsed.user_id, !.scope = parsed.scope])
                   /\ out' = NoOut
    /\ UNCHANGED <<users, tokens, nkeys, areq, revoked>>

\* lines 189-202: execute("DEL", record_key), the record parsed, the HMAC
\* recomputed and compared
token_del(r) ==
    /\ Quiet
    /\ BagIn(r, treq)
    /\ r.pc = "del"
    /\ LET q == r.query
           record_key == RecordKey(q.code)
           parsed == ParseRecord(r.record)
           message == Message(q.client_id, q.redirect_uri)
           calculated_code == Hmac(parsed.key, message)
       IN  /\ rd' = Del(rd, record_key)
           /\ ledger' = IF record_key \in DOMAIN rd
                        THEN [ledger EXCEPT ![q.code].state = "deleted", ![q.code].age = 0]
                        ELSE ledger
           /\ IF ~parsed.ok
              THEN /\ out' = Out("token", r, TokenError(500, "Internal server error"))
                   /\ treq' = Finished(treq, r)
              ELSE IF ~compare_digest(calculated_code, q.code)
              THEN /\ out' = Out("token", r, TokenError(401, "Bad authorization code passed"))
                   /\ treq' = Finished(treq, r)
              ELSE /\ treq' = Moved(treq, r, [r EXCEPT !.pc = "fetch",
                                    !.user_id = parsed.user_id, !.scope = parsed.scope])
                   /\ out' = NoOut
    /\ UNCHANGED <<users, tokens, nkeys, areq, revoked>>

\* the password fetched and used without the check for None
token_fetch_user_unchecked(r) ==
    /\ Quiet
    /\ BagIn(r, treq)
    /\ r.pc = "fetch"
    /\ treq' = Moved(treq, r, [r EXCEPT !.pc = "issue",
                     !.user_password = IF r.user_id \in DOMAIN users
                                       THEN users[r.user_id].password ELSE <<>>])
    /\ out' = NoOut
    /\ UNCHANGED <<users, rd, tokens, nkeys, areq, revoked, ledger>>

\* lines 204-209: fetchval("SELECT password FROM users WHERE id = $1")
token_fetch_user(r) ==
    /\ Quiet
    /\ BagIn(r, treq)
    /\ r.pc = "fetch"
    /\ IF r.user_id \notin DOMAIN users
       THEN /\ out' = Out("token", r, TokenError(400, "User does not exist"))
            /\ treq' = Finished(treq, r)
       ELSE /\ treq' = Moved(treq, r, [r EXCEPT !.pc = "issue",
                                !.user_password = users[r.user_id].password])
            /\ out' = NoOut
    /\ UNCHANGED <<users, rd, tokens, nkeys, areq, revoked, ledger>>

\* lines 211-227: Token.from_data and the JSON response
token_issue(r) ==
    /\ Quiet
    /\ BagIn(r, treq)
    /\ r.pc = "issue"
    /\ LET q == r.query
           token == TokenFromData(r.user_id, r.user_password, q.client_id,
                                  Split(r.scope, " "))
       IN  /\ tokens' = tokens \cup {token}
           /\ revoked' = revoked \ {token}
           /\ out' = Out("token", r, TResp(200, "OK", token, "Bearer", r.scope))
           /\ ledger' = [ledger EXCEPT ![q.code].issued = Bump(@),
                            ![q.code].state = IF @ = "deleted" THEN "redeemed" ELSE @]
    /\ treq' = Finished(treq, r)
    /\ UNCHANGED <<users, rd, nkeys, areq>>

(***************************************************************************)
(* POST /token/revoke                                                      *)
(***************************************************************************)
\* the bearer tokens a caller can present: valid tokens and revoked ones
Bearers == tokens \cup revoked

\* the handler answering without revoking
RevokeSkipped(store, token) == store

\* line 242: await req["access_token"].revoke()
RevokeToken(store, token) == TokenRevoke(store, token)

\* lines 239-244
revoke(credential) ==
    /\ Quiet
    /\ credential \in Bearers
    /\ tokens' = RevokeToken(tokens, ParseToken(credential))
    /\ revoked' = revoked \cup {credential}
    /\ out' = Out("revoke", [credential |-> credential, again |-> credential \in revoked],
                  RevokeResponse)
    /\ UNCHANGED <<users, rd, nkeys, areq, treq, ledger>>

(***************************************************************************)
(* The environment: time passing in the transient store, accounts deleted  *)
(***************************************************************************)
\* no key ever expiring
ExpiredNone == {}

\* the keys whose seconds to live run out within the next TickSeconds
Expired == {k \in DOMAIN rd : rd[k].ttl <= TickSeconds}

Tick ==
    /\ Quiet
    /\ DOMAIN rd # {}
    /\ rd' = [k \in DOMAIN rd \ Expired |-> [rd[k] EXCEPT !.ttl = @ - TickSeconds]]
    /\ ledger' = [c \in DOMAIN ledger |->
                    IF ledger[c].state # "live" THEN ledger[c]
                    ELSE IF ledger[c].age + TickSeconds >= 600
                    THEN [ledger[c] EXCEPT !.state = "expired", !.age = 600]
                    ELSE [ledger[c] EXCEPT !.age = @ + TickSeconds]]
    /\ out' = NoOut
    /\ UNCHANGED <<users, tokens, nkeys, areq, treq, revoked>>

DeleteUser(u) ==
    /\ Quiet
    /\ u \in DOMAIN users
    /\ users' = MapDel(users, {u})
    /\ out' = NoOut
    /\ UNCHANGED <<rd, tokens, nkeys, areq, treq, revoked, ledger>>

\* the response of a finished task is written to its connection
respond ==
    /\ ~Quiet
    /\ out' = NoOut
    /\ UNCHANGED <<users, rd, tokens, nkeys, areq, treq, revoked, ledger>>

\* every login paired with every password
Credentials == {[login |-> l, password |-> p] : l \in Logins, p \in Passwords}

\* the logins that name an account, each with that account's password
ValidCredentials == {c \in Credentials : c.password = PasswordOf(IF c.login = "alice" THEN 7 ELSE 10)}

\* the queries that ask for a code
CodeQueries == {q \in PostQueries : q.response_type = "code"}

\* Code issuance and exchange: POST /authorize with good credentials, any
\* POST /token, time passing, accounts deleted
Next ==
    \/ \E q \in CodeQueries, c \in ValidCredentials :
            post_authorize_login(q, c.login, c.password)
    \/ \E r \in BagToSet(areq) : post_authorize_setex(r)
    \/ \E q \in TokenQueries : token_get(q)
    \/ \E r \in BagToSet(treq) : token_del(r)
    \/ \E r \in BagToSet(treq) : token_fetch_user(r)
    \/ \E r \in BagToSet(treq) : token_issue(r)
    \/ respond
    \/ Tick
    \/ \E u \in UserIds : DeleteUser(u)

Spec == Init /\ [][Next]_vars

\* The authorize endpoints: GET and POST /authorize with any query and any
\* credentials, time passing, accounts deleted
NextAuthorize ==
    \/ \E q \in AuthQueries : authorize(q)
    \/ \E q \in PostQueries, c \in Credentials :
            post_authorize_login(q, c.login, c.password)
    \/ \E r \in BagToSet(areq) : post_authorize_setex(r)
    \/ respond
    \/ Tick
    \/ \E u \in UserIds : DeleteUser(u)

SpecAuthorize == Init /\ [][NextAuthorize]_vars

\* the exchange of a code by the client it was issued to
OwnQueries ==
    { TokenQuery("authorization_code", c, ledger[c].query.redirect_uri,
                 ledger[c].query.client_id) : c \in DOMAIN ledger }

\* Well-behaved clients: GET /authorize, then POST /authorize with good
\* credentials, each code exchanged by its client, one exchange at a time,
\* tokens revoked
NextClients ==
    \/ \E q \in PostQueries : authorize(q)
    \/ \E q \in PostQueries, c \in ValidCredentials :
            post_authorize_login(q, c.login, c.password)
    \/ \E r \in BagToSet(areq) : post_authorize_setex(r)
    \/ \E q \in OwnQueries : treq = EmptyBag /\ token_get(q)
    \/ \E r \in BagToSet(treq) : token_del(r)
    \/ \E r \in BagToSet(treq) : token_fetch_user(r)
    \/ \E r \in BagToSet(treq) : token_issue(r)
    \/ \E t \in Bearers : revoke(t)
    \/ respond

SpecClients == Init /\ [][NextClients]_vars

\* two users logging in for one client and redirect_uri, one with the default
\* scope and one with scopes of her own
PairPosts ==
    { [query |-> AuthQuery(1, UriA, NoScope, "code"), login |-> "alice", password |-> "pwA"],
      [query |-> AuthQuery(1, UriA, BotUserBot, "code"), login |-> "bob", password |-> "pwB"] }

\* GET /authorize queries met while codes are issued: one the registry
\* accepts, an unregistered client, a redirect_uri other than the registered
\* one, and the unimplemented response_type
IssueQueries ==
    { AuthQuery(1, UriA, NoScope, "code"), AuthQuery(12, UriB, NoScope, "code"),
      AuthQuery(1, UriB, NoScope, "code"), AuthQuery(1, UriA, NoScope, "token") }

\* Concurrent issuance: up to MaxPosts POST /authorize requests of one client
\* and redirect_uri running together, each code exchanged by that client,
\* one exchange at a time, with GET /authorize and refresh_token requests in
\* between
NextIssue ==
    \/ \E q \in IssueQueries : authorize(q)
    \/ \E c \in DOMAIN ledger : token_get(TokenQuery("refresh_token", c, UriA, 1))
    \/ \E p \in PairPosts : post_authorize(p.query, p.login, p.password, MaxPosts)
    \/ \E r \in BagToSet(areq) : post_authorize_setex(r)
    \/ \E q \in OwnQueries : treq = EmptyBag /\ token_get(q)
    \/ \E r \in BagToSet(treq) : token_del(r)
    \/ \E r \in BagToSet(treq) : token_fetch_user(r)
    \/ \E r \in BagToSet(treq) : token_issue(r)
    \/ respond

SpecIssue == Init /\ [][NextIssue]_vars

\* logins for a client that is not registered and for a registered client
\* with a redirect_uri other than the registered one
UnregisteredPosts ==
    { [query |-> AuthQuery(12, UriB, NoScope, "code"), login |-> "alice", password |-> "pwA"],
      [query |-> AuthQuery(1, UriB, BotUserBot, "code"), login |-> "bob", password |-> "pwB"] }

\* Skipping the GET: POST /authorize with queries GET /authorize rejects,
\* the codes exchanged by the client that asked, one exchange at a time
NextRegistry ==
    \/ \E p \in UnregisteredPosts : authorize(p.query)
    \/ \E p \in UnregisteredPosts : post_authorize(p.query, p.login, p.password, MaxPosts)
    \/ \E r \in BagToSet(areq) : post_authorize_setex(r)
    \/ \E q \in OwnQueries : treq = EmptyBag /\ token_get(q)
    \/ \E r \in BagToSet(treq) : token_del(r)
    \/ \E r \in BagToSet(treq) : token_fetch_user(r)
    \/ \E r \in BagToSet(treq) : token_issue(r)
    \/ respond

SpecRegistry == Init /\ [][NextRegistry]_vars

\* Accounts deleted around the exchange: codes issued, each exchanged by its
\* client, the users table losing rows at any moment
NextAccounts ==
    \/ \E p \in PairPosts : post_authorize_login(p.query, p.login, p.password)
    \/ \E r \in BagToSet(areq) : post_authorize_setex(r)
    \/ \E q \in OwnQueries : token_get(q)
    \/ \E r \in BagToSet(treq) : token_del(r)
    \/ \E r \in BagToSet(treq) : token_fetch_user(r)
    \/ \E r \in BagToSet(treq) : token_issue(r)
    \/ respond
    \/ \E u \in UserIds : DeleteUser(u)

SpecAccounts == Init /\ [][NextAccounts]_vars

\* every client_id and redirect_uri presented with every code issued
AnyPairQueries ==
    { TokenQuery("authorization_code", c, u, id) : c \in DOMAIN ledger, u \in Uris, id \in ClientIds }

\* Exchanges that fail after reading the record: codes presented with any
\* client_id and redirect_uri, one exchange after the other, users deleted
\* at any moment
NextConsume ==
    \/ \E p \in PairPosts : post_authorize_login(p.query, p.login, p.password)
    \/ \E r \in BagToSet(areq) : post_authorize_setex(r)
    \/ \E q \in AnyPairQueries : treq = EmptyBag /\ token_get(q)
    \/ \E r \in BagToSet(treq) : token_del(r)
    \/ \E r \in BagToSet(treq) : token_fetch_user(r)
    \/ \E r \in BagToSet(treq) : token_issue(r)
    \/ respond
    \/ \E u \in UserIds : DeleteUser(u)

SpecConsume == Init /\ [][NextConsume]_vars

\* Abandoned and redeemed codes: codes issued, exchanged by their client or
\* left alone, while time passes in the store.  Redis expires keys whatever
\* the requests do, and every response task runs to its end.
NextExpiry ==
    \/ \E p \in PairPosts : post_authorize_login(p.query, p.login, p.password)
    \/ \E r \in BagToSet(areq) : post_authorize_setex(r)
    \/ \E q \in OwnQueries : token_get(q)
    \/ \E r \in BagToSet(treq) : token_del(r)
    \/ \E r \in BagToSet(treq) : token_fetch_user(r)
    \/ \E r \in BagToSet(treq) : token_issue(r)
    \/ respond
    \/ Tick

SpecExpiry == Init /\ [][NextExpiry]_vars /\ SF_vars(Tick) /\ WF_vars(respond)

(***************************************************************************)
(* error_middleware (app.py): what the outer boundary makes of the outcome *)
(* of a handler.  An exception is its class, its status and its text; a    *)
(* class matches an except clause when one of its bases is named there.    *)
(***************************************************************************)
HTTPClasses ==
    { [class |-> "HTTPOk", status |-> 200],
      [class |-> "HTTPNoContent", status |-> 204],
      [class |-> "HTTPFound", status |-> 302],
      [class |-> "HTTPNotModified", status |-> 304],
      [class |-> "HTTPBadRequest", status |-> 400],
      [class |-> "HTTPUnauthorized", status |-> 401],
      [class |-> "HTTPNotFound", status |-> 404],
      [class |-> "HTTPMethodNotAllowed", status |-> 405],
      [class |-> "HTTPInternalServerError", status |-> 500],
      [class |-> "HTTPNotImplemented", status |-> 501] }

\* the classes an exception class derives from, itself included
Bases(class, status) ==
    {class} \cup
    ( IF class \in {"RuntimeError", "ValueError"} THEN {"Exception", "BaseException"}
      ELSE IF class = "CancelledError" THEN {"BaseException"}
      ELSE {"HTTPException", "Exception", "BaseException"} \cup
           ( IF status \in 200..299 THEN {"HTTPSuccessful"}
             ELSE IF status \in 300..399 THEN {"HTTPRedirection"}
             ELSE {"HTTPError"} ) )

Reasons == {"Application not found in database", "Bad redirect_uri passed", "Unauthorized"}

\* web.HTTPException(reason=...): its text is f"{status}: {reason}"
RaisedHTTP(c, reason) ==
    [raised |-> TRUE, class |-> c.class, status |-> c.status, text |-> <<c.status, ": ", reason>>]

RaisedOther(class) == [raised |-> TRUE, class |-> class, status |-> 0, text |-> <<>>]

Returned(status, text) == [raised |-> FALSE, class |-> "Response", status |-> status, text |-> text]

\* what a handler can end with
HandlerOutcomes ==
    { RaisedHTTP(c, r) : c \in HTTPClasses, r \in Reasons }
    \cup { RaisedOther(c) : c \in {"RuntimeError", "ValueError", "CancelledError"} }
    \cup { Returned(200, <<"code">>), Returned(200, <<"Deleted access token">>) }

IsInstance(e, classes) == Bases(e.class, e.status) \cap classes # {}

\* the exception leaves the middleware
Propagate(e) == [kind |-> "raise", exc |-> e, status |-> 0, message |-> <<>>]

\* web.json_response({"message": message}, status=status)
JsonMessage(status, message) ==
    [kind |-> "json", exc |-> RaisedOther(""), status |-> status, message |-> message]

\* app.py lines 35-56: the except clauses in their order
error_middleware(outcome, debug) ==
    IF ~outcome.raised THEN [kind |-> "return", exc |-> outcome, status |-> outcome.status,
                             message |-> outcome.text]
    ELSE IF IsInstance(outcome, {"HTTPSuccessful", "HTTPRedirection"}) THEN Propagate(outcome)
    ELSE IF IsInstance(outcome, {"HTTPException"}) THEN JsonMessage(outcome.status, outcome.text)
    ELSE IF IsInstance(outcome, {"HTTPMethodNotAllowed", "CancelledError"})
    THEN IF debug THEN Propagate(outcome)
         ELSE JsonMessage(500, <<500, " Internal server error">>)
    ELSE IF IsInstance(outcome, {"Exception"})
    THEN JsonMessage(500, <<500, ": Internal server error">>)
    ELSE Propagate(outcome)

\* a handler has ended with some outcome, the server in debug mode or not
InitMiddleware ==
    /\ users = InitUsers
    /\ rd = EmptyMap
    /\ tokens = {}
    /\ nkeys = 0
    /\ areq = EmptyBag
    /\ treq = EmptyBag
    /\ revoked = {}
    /\ ledger = EmptyMap
    /\ \E o \in HandlerOutcomes, debug \in BOOLEAN :
            out = Out("handler", [outcome |-> o, debug |-> debug], NoAResp)

handle ==
    /\ out.kind = "handler"
    /\ out' = Out("middleware", out.req, error_middleware(out.req.outcome, out.req.debug))
    /\ UNCHANGED <<users, rd, tokens, nkeys, areq, treq, revoked, ledger>>

NextMiddleware ==
    \/ handle
    \/ out.kind = "middleware" /\ respond

SpecMiddleware == InitMiddleware /\ [][NextMiddleware]_vars

(***************************************************************************)
(* The record format on its own: what post_authorize writes for a user, a  *)
(* key and a scope list, and what token reads back from it                 *)
(***************************************************************************)
RecordUserIds == {0, 7, 10, 99, 100, 1234567890}

\* keys secrets.token_bytes(KeyLen) can return: some draws, all bytes 0, all
\* bytes 255, and bytes that encode to "+" and "/"
RecordKeys ==
    { KeyBytes(n) : n \in 0..3 }
    \cup { [i \in 1..KeyLen |-> 0], [i \in 1..KeyLen |-> 255],
           [i \in 1..KeyLen |-> IF i % 3 = 1 THEN 251 ELSE 239] }

\* the lists Scope._convert returns, and the default
RecordScopes ==
    { ScopeParam(p).scopes :
        p \in { NoScope, BotUserBot,
                [given |-> TRUE, value |-> ScopeBot],
                [given |-> TRUE, value |-> ScopeUser \o <<" ">> \o ScopeBot] } }

InitRecord ==
    /\ users = InitUsers
    /\ rd = EmptyMap
    /\ tokens = {}
    /\ nkeys = 0
    /\ areq = EmptyBag
    /\ treq = EmptyBag
    /\ revoked = {}
    /\ ledger = EmptyMap
    /\ \E u \in RecordUserIds, k \in RecordKeys, sc \in RecordScopes :
            out = Out("record", [user_id |-> u, key |-> k, scope |-> sc], NoAResp)

\* lines 149-155 then 191-194 and 215: the value formatted, then split,
\* converted and decoded
write_and_read ==
    /\ out.kind = "record"
    /\ LET value == RecordValue(out.req.user_id, out.req.key, out.req.scope)
           parsed == ParseRecord(value)
       IN  out' = Out("parsed", out.req,
                      [value |-> value, parsed |-> parsed, scopes |-> Split(parsed.scope, " ")])
    /\ UNCHANGED <<users, rd, tokens, nkeys, areq, treq, revoked, ledger>>

NextRecord ==
    \/ write_and_read
    \/ out.kind = "parsed" /\ respond

SpecRecord == InitRecord /\ [][NextRecord]_vars

(***************************************************************************)
(* Scope._convert on its own: raw scope parameters of up to MaxItems items *)
(***************************************************************************)
\* what may stand between the spaces of a scope parameter: the recognized
\* names, a name that is not recognized, and nothing
ScopeItems == EXISTING_SCOPES \cup {<<"x">>, <<>>}

ItemLists == UNION { [1..n -> ScopeItems] : n \in 1..MaxItems }

InitScope ==
    /\ users = InitUsers
    /\ rd = EmptyMap
    /\ tokens = {}
    /\ nkeys = 0
    /\ areq = EmptyBag
    /\ treq = EmptyBag
    /\ revoked = {}
    /\ ledger = EmptyMap
    /\ \E items \in ItemLists :
            out = Out("scope", [items |-> items, value |-> Join(items, <<" ">>)], NoAResp)

convert ==
    /\ out.kind = "scope"
    /\ out' = Out("converted", out.req, ScopeConvert(out.req.value))
    /\ UNCHANGED <<users, rd, tokens, nkeys, areq, treq, revoked, ledger>>

NextScope ==
    \/ convert
    \/ out.kind = "converted" /\ respond

SpecScope == InitScope /\ [][NextScope]_vars

(***************************************************************************)
(* Properties                                                              *)
(***************************************************************************)
TokenOut == out.kind = "token" /\ out.req.query.grant_type = "authorization_code"

\* the pair a code was issued for
IssuedFor(code, client_id, redirect_uri) ==
    /\ code \in DOMAIN ledger
    /\ ledger[code].query.client_id = client_id
    /\ ledger[code].query.redirect_uri = redirect_uri

\* C1: of the POST /token requests for one code record at most one reads the
\* record as present, and at most one access token is issued for the code.
C1_AtMostOneRedemption ==
    \A c \in DOMAIN ledger : ledger[c].seen <= 1 /\ ledger[c].issued <= 1

\* C2: a POST /token request (authorization_code grant) that arrives after
\* its code was redeemed, with no record stored under the code since, gets
\* 401, whatever client_id and redirect_uri it carries.
C2_RedeemedCodeRejected ==
    (TokenOut /\ out.req.saw = "redeemed") =>
        (out.resp.status = 401 /\ out.resp.access_token = NoToken)

C2_Witness ==
    /\ TokenOut
    /\ out.req.saw = "redeemed"
    /\ out.resp.status = 401
    /\ IssuedFor(out.req.query.code, out.req.query.client_id, out.req.query.redirect_uri)

\* C3: a POST /token request for a code whose record expired 600 seconds
\* after it was issued, and one for a code already redeemed, get one and the
\* same response: 401 "Wrong or expired authorization code passed", no token.
C3_ExpiredLikeRedeemed ==
    (TokenOut /\ out.req.saw \in {"expired", "redeemed"}) =>
        out.resp = [status |-> 401,
                    reason |-> "Wrong or expired authorization code passed",
                    access_token |-> NoToken, token_type |-> "", scope |-> <<>>]

C3_Witness ==
    /\ TokenOut
    /\ out.req.saw = "expired"
    /\ out.resp.status = 401
    /\ ledger[out.req.query.code].seen = 0

C5_OtherPairRejected ==
    (/\ TokenOut
     /\ out.req.query.code \in DOMAIN ledger
     /\ ~IssuedFor(out.req.query.code, out.req.query.client_id, out.req.query.redirect_uri)) =>
        /\ out.resp.status = 401
        /\ out.resp.access_token = NoToken
        /\ out.req.saw = "live" => out.resp.reason = "Bad authorization code passed"

C5_Witness ==
    /\ TokenOut
    /\ out.req.saw = "live"
    /\ out.req.query.client_id = ledger[out.req.query.code].query.client_id
    /\ out.req.query.redirect_uri # ledger[out.req.query.code].query.redirect_uri
    /\ out.resp.reason = "Bad authorization code passed"

AuthorizeOut == out.kind = "authorize" /\ out.req.query.response_type = "code"

\* the login names an account and the password is that account's
GoodLogin(accounts, login, password) ==
    \E u \in accounts : Email(u) = login /\ PasswordOf(u) = password

\* what C6 asks of one step: the response it sends and the store it leaves
C6_Step ==
    /\ (out'.kind = "post_authorize" /\ out'.resp.status # 401) =>
            GoodLogin(UserIds, out'.req.login, out'.req.password)
    /\ (out'.kind = "post_authorize" /\ areq' = areq
            /\ ~GoodLogin(DOMAIN users, out'.req.login, out'.req.password)) =>
            out'.resp.status = 401
    /\ (out'.kind = "post_authorize" /\ out'.resp.status = 401) => rd' = rd
    /\ ~(DOMAIN rd' \subseteq DOMAIN rd) =>
            (out'.kind = "post_authorize" /\ out'.resp.status = 200)

\* C6: POST /authorize answers 200 only to a login that names an account
\* with that account's password; a request whose login names no user, or
\* whose password fails, gets 401; a 401 leaves the transient store as it
\* was; and nothing but a 200 of POST /authorize adds a record to the store.
C6_CodeOnlyAfterLogin == [][C6_Step]_vars

C6_Witness ==
    /\ out.kind = "post_authorize"
    /\ out.resp.status = 401
    /\ out.req.login = "alice"
    /\ out.req.password = "pwB"
    /\ DOMAIN rd # {}

\* C7: GET /authorize with response_type=code and a client_id that is not
\* in the applications table answers 404.
C7_UnknownClientNotFound ==
    (AuthorizeOut /\ out.req.query.client_id \notin DOMAIN applications) =>
        out.resp.status = 404

\* C8: GET /authorize with response_type=code for a registered client
\* answers 400 when the registered redirect_uri differs from the one
\* supplied, and the login context exactly when the two are equal.
C8_RedirectUriMustMatch ==
    (AuthorizeOut /\ out.req.query.client_id \in DOMAIN applications) =>
        LET app == applications[out.req.query.client_id]
        IN  IF app.redirect_uri # out.req.query.redirect_uri
            THEN out.resp.status = 400 /\ out.resp.context = NoContext
            ELSE /\ out.resp.status = 200
                 /\ out.resp.context =
                        [redirect_uri |-> out.req.query.redirect_uri,
                         app_name |-> app.name,
                         scope |-> Join(out.req.query.scope, <<" ">>),
                         state |-> out.req.query.state]

C8_Witness ==
    /\ AuthorizeOut
    /\ out.req.query.client_id = 1
    /\ out.req.query.redirect_uri = UriB
    /\ out.resp.status = 400

\* C9: an authorize request with response_type=token, GET or POST, answers
\* 501, and no code record is ever stored for such a request.
C9_TokenTypeNotImplemented ==
    /\ (out.kind \in {"authorize", "post_authorize"}
            /\ out.req.query.response_type = "token") => out.resp.status = 501
    /\ \A c \in DOMAIN ledger : ledger[c].query.response_type # "token"

StoredRecord(code) == ParseRecord(rd[RecordKey(code)].value)

\* C11: POST /authorize requests of one client_id and redirect_uri that run
\* together each store their record under a key of their own: no record is
\* overwritten, each returned code names the record of its own request, the
\* stored key verifies that code only, and exchanging the code yields a
\* token for the user and scopes of the request that produced it.
C11_ConcurrentCodesIsolated ==
    /\ Cardinality(DOMAIN ledger) = nkeys
    /\ \A c \in DOMAIN ledger :
            RecordKey(c) \in DOMAIN rd =>
                LET record == StoredRecord(c) IN
                /\ record.ok
                /\ record.user_id = ledger[c].user_id
                /\ record.scope = Join(ledger[c].query.scope, <<" ">>)
                /\ \A d \in DOMAIN ledger :
                        compare_digest(Hmac(record.key,
                                            Message(ledger[d].query.client_id,
                                                    ledger[d].query.redirect_uri)), d)
                            <=> d = c
    /\ (out.kind = "post_authorize" /\ out.resp.status = 200) =>
            /\ out.resp.text \in DOMAIN ledger
            /\ ledger[out.resp.text].user_id = out.req.user_id
            /\ ledger[out.resp.text].query = out.req.query
    /\ (TokenOut /\ out.req.first) =>
            /\ out.resp.status = 200
            /\ out.resp.access_token.user_id = ledger[out.req.query.code].user_id
            /\ out.resp.access_token.scope = ledger[out.req.query.code].query.scope
            /\ out.resp.scope = Join(ledger[out.req.query.code].query.scope, <<" ">>)

C11_Witness ==
    /\ TokenOut
    /\ out.resp.status = 200
    /\ \E c \in DOMAIN ledger :
            /\ c # out.req.query.code
            /\ ledger[c].overlap
            /\ ledger[c].issued = 1
            /\ ledger[c].query.client_id = out.req.query.client_id
            /\ ledger[c].query.redirect_uri = out.req.query.redirect_uri
            /\ ledger[c].user_id # out.resp.access_token.user_id

\* the codes POST /authorize can return in the expiry specification
ExpiryCodes ==
    { Hmac(KeyBytes(n), Message(p.query.client_id, p.query.redirect_uri)) :
        n \in 1..MaxCodes, p \in PairPosts }

Stored(code) == RecordKey(code) \in DOMAIN rd

\* a stored record has between 1 and 600 seconds to live, and no step gives
\* it more than it had
TtlStep ==
    \A k \in DOMAIN rd :
        /\ rd[k].ttl \in 1..600
        /\ k \in DOMAIN rd' => rd'[k].ttl <= rd[k].ttl

\* C12: a code record is stored with 600 seconds to live and no step of the
\* subsystem extends that time; the record is in the store exactly until it
\* is deleted by an exchange or 600 seconds have passed; a record no
\* exchange has read leaves the store by expiry only; and every stored
\* record is eventually gone from the store.
C12_UnredeemedCodeExpires ==
    /\ [][TtlStep]_vars
    /\ [](\A c \in DOMAIN ledger :
            /\ Stored(c) <=> ledger[c].state = "live"
            /\ (ledger[c].seen = 0 /\ ~Stored(c)) => ledger[c].state = "expired")
    /\ \A c \in ExpiryCodes : Stored(c) ~> ~Stored(c)

C12_Witness ==
    \E c \in DOMAIN ledger :
        /\ ledger[c].state = "expired"
        /\ ledger[c].seen = 0
        /\ ~Stored(c)
        /\ Quiet

GenericMessages == {<<500, " Internal server error">>, <<500, ": Internal server error">>}

\* C13: of a handler's outcome the middleware makes: for an HTTP error, a
\* JSON {"message": text} response with the error's status and text; for a
\* successful or redirect HTTP response raised as an exception, the same
\* exception, propagated; for every other exception, a JSON response with
\* status 500 and a generic internal-server-error message.
C13_MiddlewareUniform ==
    (out.kind = "middleware" /\ out.req.outcome.raised) =>
        LET e == out.req.outcome
        IN  IF IsInstance(e, {"HTTPSuccessful", "HTTPRedirection"})
            THEN out.resp = Propagate(e)
            ELSE IF IsInstance(e, {"HTTPException"})
            THEN out.resp = JsonMessage(e.status, e.text)
            ELSE /\ out.resp.kind = "json"
                 /\ out.resp.status = 500
                 /\ out.resp.message \in GenericMessages

\* C14: a step in which GET /authorize answers, whatever the answer (the
\* login context, 400 or 501), leaves the transient code store and the token
\* store as they were, and with them every other part of the protocol state.
C14_AuthorizeChangesNothing ==
    [][out'.kind = "authorize" =>
            /\ rd' = rd
            /\ tokens' = tokens
            /\ UNCHANGED <<users, nkeys, areq, treq, revoked, ledger>>]_vars

C14_Witness ==
    /\ out.kind = "authorize"
    /\ out.resp.status \in {400, 501}
    /\ DOMAIN rd # {}
    /\ tokens # {}

\* the client registry accepts the query: what GET /authorize checks
Registered(query) ==
    /\ query.client_id \in DOMAIN applications
    /\ applications[query.client_id].redirect_uri = query.redirect_uri

RefreshOut == out.kind = "token" /\ out.req.query.grant_type = "refresh_token"

\* C16: a POST /token request with grant_type=refresh_token answers 501 "not
\* supported yet" in a step that leaves the transient store, the tokens and
\* the exchanges in flight as they were; a live record its code names is
\* still stored when it answers, and the first exchange of that code after
\* it succeeds.
C16_RefreshTouchesNothing ==
    /\ [][(out'.kind = "token" /\ out'.req.query.grant_type = "refresh_token") =>
            /\ out'.resp = TokenError(501, "grant_type=refresh_token is not supported yet")
            /\ rd' = rd
            /\ tokens' = tokens
            /\ UNCHANGED <<users, treq, areq, nkeys>>]_vars
    /\ []((RefreshOut /\ out.req.saw = "live") => Stored(out.req.query.code))
    /\ []((TokenOut /\ out.req.refreshed /\ out.req.first /\ out.req.saw = "live"
            /\ IssuedFor(out.req.query.code, out.req.query.client_id, out.req.query.redirect_uri)
            /\ ledger[out.req.query.code].user_id \in DOMAIN users) =>
                out.resp.status = 200)

C16_Witness ==
    /\ TokenOut
    /\ out.req.refreshed
    /\ out.req.first
    /\ out.resp.status = 200

\* C17: a POST /token request with the code, client_id and redirect_uri of
\* an issuance, arriving while the record is stored and after the user it
\* was issued to has left the users table, answers 400 "User does not
\* exist" and gets no token.
C17_DeletedUserRejected ==
    (/\ TokenOut
     /\ out.req.orphan
     /\ out.req.saw = "live"
     /\ IssuedFor(out.req.query.code, out.req.query.client_id, out.req.query.redirect_uri)) =>
        out.resp = TokenError(400, "User does not exist")

C17_Witness ==
    /\ TokenOut
    /\ out.req.orphan
    /\ out.req.first
    /\ out.resp.status = 400
    /\ tokens = {}

\* C18: the value POST /authorize writes for a user id, a signing key and a
\* scope list, "{user_id}:{base64 key}:{scopes joined by space}", is split
\* by POST /token into three parts that give back the same user id, the same
\* key bytes and the same scope list.
C18_RecordRoundTrip ==
    out.kind = "parsed" =>
        /\ out.resp.parsed.ok
        /\ out.resp.parsed.user_id = out.req.user_id
        /\ out.resp.parsed.key = out.req.key
        /\ out.resp.scopes = out.req.scope

C18_Witness ==
    /\ out.kind = "parsed"
    /\ out.req.user_id = 1234567890
    /\ out.req.key = [i \in 1..KeyLen |-> IF i % 3 = 1 THEN 251 ELSE 239]
    /\ out.req.scope = <<ScopeBot, ScopeUser>>
    /\ \E i \in 1..Len(out.resp.value) : out.resp.value[i] = "/"
    /\ \E i \in 1..Len(out.resp.value) : out.resp.value[i] = "+"

\* the place of the first occurrence of x in a list
FirstAt(items, x) == CHOOSE i \in 1..Len(items) : items[i] = x /\ \A j \in 1..(i - 1) : items[j] # x

\* C19: converting the items of a list joined by single spaces gives, when
\* every item is a recognized name, each distinct item once, in the order of
\* the first occurrences; and gives a rejection with no list at all when some
\* item is not recognized, an empty item (from an empty string, a leading, a
\* trailing or a doubled space) included.
C19_ScopeConversion ==
    out.kind = "converted" =>
        LET items == out.req.items
            scopes == out.resp.scopes
        IN  IF \A i \in 1..Len(items) : items[i] \in EXISTING_SCOPES
            THEN /\ out.resp.ok
                 /\ {scopes[i] : i \in 1..Len(scopes)} = {items[i] : i \in 1..Len(items)}
                 /\ \A i, j \in 1..Len(scopes) :
                        i < j => FirstAt(items, scopes[i]) < FirstAt(items, scopes[j])
            ELSE /\ ~out.resp.ok
                 /\ scopes = <<>>

C19_Witness ==
    /\ out.kind = "converted"
    /\ out.req.value = ScopeBot \o <<" ">> \o ScopeUser \o <<" ">> \o ScopeBot
    /\ out.resp.scopes = <<ScopeBot, ScopeUser>>

\* an empty string and a doubled space are rejected
C19_WitnessEmptyItem ==
    /\ out.kind = "converted"
    /\ out.req.value \in {<<>>, ScopeUser \o <<" ", " ">> \o ScopeBot}
    /\ ~out.resp.ok

\* C20: an exchange that read the record has removed it by the time it
\* answers, whether it answers 200, 401 "Bad authorization code passed" or
\* 400 "User does not exist"; and an exchange that arrives after the record
\* was deleted answers 401 "Wrong or expired authorization code passed",
\* also with the client_id and redirect_uri the code was issued for.
C20_ReadRecordIsRemoved ==
    /\ (TokenOut /\ out.req.saw = "live") =>
            /\ ~Stored(out.req.query.code)
            /\ out.resp.status \in {200, 400, 401}
    /\ (TokenOut /\ out.req.saw = "deleted") =>
            out.resp = TokenError(401, "Wrong or expired authorization code passed")

\* the code of the answered exchange was read once before, by an exchange
\* that failed
AfterFailedExchange ==
    /\ TokenOut
    /\ out.req.saw = "deleted"
    /\ IssuedFor(out.req.query.code, out.req.query.client_id, out.req.query.redirect_uri)
    /\ ledger[out.req.query.code].seen = 1
    /\ ledger[out.req.query.code].issued = 0
    /\ treq = EmptyBag

C20_Witness ==
    /\ AfterFailedExchange
    /\ out.resp.status = 401
    /\ ledger[out.req.query.code].user_id \in DOMAIN users

\* the same after an exchange that failed the user lookup only
C20_WitnessUserLookup ==
    /\ AfterFailedExchange
    /\ out.resp.status = 401
    /\ ledger[out.req.query.code].user_id \notin DOMAIN users
    /\ tokens = {}

====
